---- MODULE Spec2Model ----
(***************************************************************************)
(* Model of the protobuf delta encoder of m3 (package proto, encoder.go):  *)
(* per message, the float fields are written as XOR (TSZ) codes and the    *)
(* remaining fields as a changed-field bitset plus a marshaled partial     *)
(* message, all appended to one bit stream.                                *)
(***************************************************************************)
EXTENDS Integers, Sequences, FiniteSets, TLC

(***************************************************************************)
(* Bounds of the model and constants of the program.                       *)
(***************************************************************************)
\* Largest value a general (varint) field takes in an input message.
MaxGenVal == 2
\* math.Float64bits / WriteBits(fb, 64): width of a numeric pattern.
WordBits == 64
\* Width of a float32 pattern (the iVal.(float32) branch).
FloatBits == 32

\* The nil message pointer.
Nil == [md |-> {}, vals |-> << >>]

(***************************************************************************)
(* Bit strings: sequences of 0/1, most significant bit first.              *)
(***************************************************************************)
Bit == {0, 1}

Pow2(n) == 2 ^ n

\* The low w bits of the number n, most significant first.
NumBits(n, w) == [i \in 1..w |-> (n \div Pow2(w - i)) % 2]

RECURSIVE BitsNumFrom(_, _, _)
BitsNumFrom(b, i, acc) ==
    IF i > Len(b) THEN acc ELSE BitsNumFrom(b, i + 1, 2 * acc + b[i])

\* The number a (short) bit string denotes.
BitsNum(b) == BitsNumFrom(b, 1, 0)

Zeros(n) == [i \in 1..n |-> 0]

\* A 64-bit pattern given by its top 16 bits (the rest are zero).
TopWord(hi) == NumBits(hi, 16) \o Zeros(WordBits - 16)

\* A 32-bit pattern given by its top 16 bits (the rest are zero).
TopFloat(hi) == NumBits(hi, 16) \o Zeros(FloatBits - 16)

XorBits(a, b) == [i \in 1..Len(a) |-> (a[i] + b[i]) % 2]

IsZero(w) == \A i \in 1..Len(w) : w[i] = 0

RECURSIVE LeadingFrom(_, _)
LeadingFrom(w, i) ==
    IF i > Len(w) \/ w[i] = 1 THEN i - 1 ELSE LeadingFrom(w, i + 1)

\* Number of leading zero bits (Len(w) for the zero pattern).
LeadingZeros(w) == LeadingFrom(w, 1)

RECURSIVE TrailingFrom(_, _)
TrailingFrom(w, i) ==
    IF i < 1 \/ w[i] = 1 THEN Len(w) - i ELSE TrailingFrom(w, i - 1)

\* Number of trailing zero bits (Len(w) for the zero pattern).
TrailingZeros(w) == TrailingFrom(w, Len(w))

(***************************************************************************)
(* The bit stream (encoding.OStream): append only, no padding.             *)
(***************************************************************************)
WriteBit(s, b) == Append(s, b)

\* WriteBits(v, n): the low n bits of the 64-bit pattern v.
WriteBits(s, v, n) == s \o SubSeq(v, Len(v) - n + 1, Len(v))

RECURSIVE BytesBits(_, _)
BytesBits(bytes, i) ==
    IF i > Len(bytes) THEN << >> ELSE NumBits(bytes[i], 8) \o BytesBits(bytes, i + 1)

\* WriteBytes: every byte as its 8 bits.
WriteBytes(s, bytes) == s \o BytesBits(bytes, 1)

RECURSIVE PutUvarint(_)
\* binary.PutUvarint: base-128, little endian, continuation bit 0x80.
PutUvarint(x) ==
    IF x < 128 THEN << x >> ELSE << (x % 128) + 128 >> \o PutUvarint(x \div 128)

writeVarInt(s, x) == WriteBytes(s, PutUvarint(x))

(***************************************************************************)
(* Schemas and messages.  A schema is the ordered field list of the        *)
(* message descriptor.  A message carries its own descriptor's field       *)
(* numbers (md) and a value per field; a field holding its default value   *)
(* is unset (proto3).  double values are 64-bit patterns, float values     *)
(* 32-bit patterns, every other field is a varint scalar.                  *)
(***************************************************************************)
Fld(n, k) == [num |-> n, kind |-> k]

SchemaA == << Fld(1, "double"), Fld(2, "other") >>
SchemaB == << Fld(2, "other"), Fld(3, "other") >>
SchemaC == << Fld(1, "float"), Fld(2, "double") >>
Schemas == {SchemaA, SchemaB, SchemaC}

Nums(sch) == {sch[i].num : i \in 1..Len(sch)}

KindOf(sch, n) == sch[CHOOSE i \in 1..Len(sch) : sch[i].num = n].kind
Default(kind) ==
    IF kind = "double" THEN Zeros(WordBits)
    ELSE IF kind = "float" THEN Zeros(FloatBits)
    ELSE 0

\* dynamic.NewMessage(schema): every field unset.
NewMessage(sch) ==
    [md |-> Nums(sch), vals |-> [n \in Nums(sch) |-> Default(KindOf(sch, n))]]

\* Input values: 10.0 and 10.5 as float64 and float32 patterns.
D10 == TopWord(16420)
D10_5 == TopWord(16421)
F10 == TopFloat(16672)
F10_5 == TopFloat(16680)

InputVals(kind) ==
    IF kind = "double" THEN {D10, D10_5}
    ELSE IF kind = "float" THEN {F10, F10_5}
    ELSE 0..MaxGenVal

TszNums(sch) == {n \in Nums(sch) : KindOf(sch, n) \in {"double", "float"}}

\* The descriptors a caller's message may have: the encoder's schema, or a
\* version of it that lacks one of the float fields.
InputDescriptors(sch) == {Nums(sch)} \cup {Nums(sch) \ {n} : n \in TszNums(sch)}

RECURSIVE ValsFrom(_, _, _)
\* Every assignment of input values to the fields sch[i..] that md knows
\* (a field outside md holds nothing: its default).
ValsFrom(sch, md, i) ==
    IF i > Len(sch) THEN {<< >>}
    ELSE LET n == sch[i].num
             choices == IF n \in md THEN InputVals(sch[i].kind) ELSE {Default(sch[i].kind)}
         IN  {(n :> v) @@ f : v \in choices, f \in ValsFrom(sch, md, i + 1)}

\* The messages a caller may pass.
InputMessages(sch) ==
    UNION {{[md |-> md, vals |-> f] : f \in ValsFrom(sch, md, 1)} : md \in InputDescriptors(sch)}

\* Message.TryGetFieldByNumber: an error when the message's descriptor does
\* not know the field number, else the value (the default when unset).
TryGetFieldByNumber(m, n) ==
    IF n \in m.md THEN [err |-> FALSE, val |-> m.vals[n]]
    ELSE [err |-> TRUE, val |-> Nil]

\* A clear that leaves the field in the message.
ClearFieldByNumberKeeps(sch, m, n) == m

\* Message.ClearFieldByNumber.
ClearFieldByNumber(sch, m, n) ==
    [m EXCEPT !.vals[n] = Default(KindOf(sch, n))]

\* float64(iVal.(float32)): the exact widening of a float32 pattern.
Widen(f) ==
    LET sign == SubSeq(f, 1, 1)
        ex == BitsNum(SubSeq(f, 2, 9))
        mant == SubSeq(f, 10, FloatBits)
        lead == LeadingZeros(mant)
    IN  IF ex = 0 /\ IsZero(mant) THEN sign \o Zeros(WordBits - 1)
        ELSE IF ex = 255 THEN sign \o NumBits(2047, 11) \o mant \o Zeros(29)
        ELSE IF ex = 0
             THEN sign \o NumBits(896 - lead, 11)
                       \o SubSeq(mant, lead + 2, 23) \o Zeros(30 + lead)
        ELSE sign \o NumBits(ex + 896, 11) \o mant \o Zeros(29)
(***************************************************************************)
(* State of one encoder and of its caller.  The stream is append only and  *)
(* the encoder never reads it: the state keeps the bits that the last      *)
(* Encode call appended (frame), not the bits of earlier calls.            *)
(***************************************************************************)
VARIABLES
    schema,              \* enc.schema: the field list of the message descriptor
    frame,               \* enc.stream: the bits the last Encode appended to it
    hasWrittenFirstTSZ,  \* enc.hasWrittenFirstTSZ
    lastEncoded,         \* enc.lastEncoded: Nil, or the present content of the
                         \* caller's message object the encoder points to
    tszFields,           \* enc.tszFields
    ret,                 \* what the last Encode returned: "nil", "error", or
                         \* "panic" when it did not return
    last,                \* history: what the last Encode call was given and did
    dec                  \* the reader of the stream: its state after the last frame

vars == << schema, frame, hasWrittenFirstTSZ, lastEncoded, tszFields, ret, last, dec >>

(***************************************************************************)
(* The query conversion cache (package storage, FetchQueryToM3Query): the  *)
(* state of one QueryConversionCache and of the goroutines that call       *)
(* FetchQueryToM3Query on it. The encoder and the cache share no state:    *)
(* each specification leaves the other program's variables as they are.    *)
(***************************************************************************)
VARIABLES
    lru,       \* cache.lru: the entries, a set of [key, value] with distinct keys
    readers,   \* cache.RWMutex: the goroutines that hold the read lock
    writer,    \* cache.RWMutex: the goroutine that holds the write lock, or 0
    pc,        \* per goroutine: where it is in FetchQueryToM3Query
    matchers,  \* per goroutine: fetchQuery.TagMatchers of its call
    localK,    \* per goroutine: the local k
    localQ,    \* per goroutine: the local q (val on a hit)
    result     \* per goroutine: what its last call returned, and whether
               \* the call read and wrote the LRU

queryVars == << lru, readers, writer, pc, matchers, localK, localQ, result >>

\* Number of goroutines that call FetchQueryToM3Query on the cache.
NumProcs == 2

Procs == 1..NumProcs

\* idx.Query{}: the zero query.
EmptyQuery == [op |-> "empty", neg |-> FALSE, name |-> << >>, value |-> << >>, subs |-> << >>]

\* No call has returned yet.
NoResult == [query |-> EmptyQuery, err |-> "none", read |-> FALSE, wrote |-> FALSE]

\* NewQueryConversionCache(lru) with an empty LRU, no goroutine in a call.
QueryInit ==
    /\ lru = {}
    /\ readers = {}
    /\ writer = 0
    /\ pc = [p \in Procs |-> "idle"]
    /\ matchers = [p \in Procs |-> << >>]
    /\ localK = [p \in Procs |-> << >>]
    /\ localQ = [p \in Procs |-> EmptyQuery]
    /\ result = [p \in Procs |-> NoResult]

(***************************************************************************)
(* glob (package graphite/storage): the argument and the result of a call. *)
(***************************************************************************)
VARIABLES
    metric,    \* the argument of glob: a string, as its sequence of bytes
    globbed,   \* what glob returned for it, << >> before the call
    filled     \* i at the return of glob: the bytes of the result it wrote

globVars == << metric, globbed, filled >>

\* No call of glob.
GlobIdle == metric = << >> /\ globbed = << >> /\ filled = 0

\* A field list that holds the float fields in the reverse of schema order.
tszFieldsOfReversed(sch) ==
    LET isTsz(f) == f.kind = "double" \/ f.kind = "float"
        fs == SelectSeq(sch, isTsz)
    IN  [i \in 1..Len(fs) |->
            [fieldNum |-> fs[Len(fs) + 1 - i].num, prevXOR |-> Zeros(WordBits),
             prevFloatBits |-> Zeros(WordBits)]]

\* tszFields(nil, schema): one state per double or float field, schema order.
tszFieldsOf(sch) ==
    LET isTsz(f) == f.kind = "double" \/ f.kind = "float"
        fs == SelectSeq(sch, isTsz)
    IN  [i \in 1..Len(fs) |->
            [fieldNum |-> fs[i].num, prevXOR |-> Zeros(WordBits),
             prevFloatBits |-> Zeros(WordBits)]]

(***************************************************************************)
(* The float (TSZ) codes.                                                  *)
(***************************************************************************)
\* m3tsz.WriteXOR: 0 for a zero XOR; else 1, then 0 and the bits of the
\* previous window when the new window lies inside it, else 1, the leading
\* zero count (5 bits), the significant bit count (6 bits) and the
\* significant bits.
WriteXOR(s, prevXOR, curXOR) ==
    LET pl == LeadingZeros(prevXOR)
        pt == TrailingZeros(prevXOR)
        cl == LeadingZeros(curXOR)
        ct == TrailingZeros(curXOR)
    IN  IF IsZero(curXOR) THEN WriteBit(s, 0)
        ELSE IF cl >= pl /\ ct >= pt
             THEN WriteBit(WriteBit(s, 1), 0) \o SubSeq(curXOR, pl + 1, WordBits - pt)
        ELSE WriteBit(WriteBit(s, 1), 1)
                 \o NumBits(cl, 5) \o NumBits(WordBits - cl - ct, 6)
                 \o SubSeq(curXOR, cl + 1, WordBits - ct)

\* enc.writeFirstTSZValue on the pair st = [stream, tsz].
writeFirstTSZValue(st, i, fb) ==
    [stream |-> WriteBits(st.stream, fb, WordBits),
     tsz |-> [st.tsz EXCEPT ![i].prevFloatBits = fb, ![i].prevXOR = fb]]

\* A next write that does not remember the XOR it wrote.
writeNextTSZValueKeepsXOR(st, i, curFloatBits) ==
    LET curXOR == XorBits(st.tsz[i].prevFloatBits, curFloatBits)
    IN  [stream |-> WriteXOR(st.stream, st.tsz[i].prevXOR, curXOR),
         tsz |-> [st.tsz EXCEPT ![i].prevFloatBits = curFloatBits]]

\* enc.writeNextTSZValue on the pair st = [stream, tsz].
writeNextTSZValue(st, i, curFloatBits) ==
    LET curXOR == XorBits(st.tsz[i].prevFloatBits, curFloatBits)
    IN  [stream |-> WriteXOR(st.stream, st.tsz[i].prevXOR, curXOR),
         tsz |-> [st.tsz EXCEPT ![i].prevFloatBits = curFloatBits,
                                ![i].prevXOR = curXOR]]

RECURSIVE tszLoop(_, _, _, _)
\* The loop of encodeTSZValues from field index i on: it stops at the first
\* field the message cannot give, leaving the later fields in the message.
\* st.ends lists the stream position after each code written.
tszLoop(i, st, m, first) ==
    IF i > Len(st.tsz) THEN [st EXCEPT !.m = m]
    ELSE LET got == TryGetFieldByNumber(m, st.tsz[i].fieldNum)
             val == IF Len(got.val) = WordBits THEN got.val ELSE Widen(got.val)
             nxt == IF first THEN writeFirstTSZValue(st, i, val)
                    ELSE writeNextTSZValue(st, i, val)
         IN  IF got.err THEN [st EXCEPT !.m = m, !.err = TRUE]
             ELSE tszLoop(i + 1,
                          [st EXCEPT !.stream = nxt.stream, !.tsz = nxt.tsz,
                                     !.ends = Append(st.ends, Len(nxt.stream))],
                          ClearFieldByNumber(schema, m, st.tsz[i].fieldNum), first)

\* enc.encodeTSZValues(m): hasWrittenFirstTSZ is set only when no fetch failed.
encodeTSZValues(m) ==
    LET r == tszLoop(1, [stream |-> << >>, tsz |-> tszFields, ends |-> << >>,
                         m |-> m, err |-> FALSE],
                     m, ~hasWrittenFirstTSZ)
    IN  [stream |-> r.stream, tsz |-> r.tsz, ends |-> r.ends, m |-> r.m, err |-> r.err,
         hasWritten |-> IF r.err THEN hasWrittenFirstTSZ ELSE TRUE]

(***************************************************************************)
(* The general fields: diff against lastEncoded, bitset, marshaled rest.   *)
(***************************************************************************)
\* fieldsEqual(curVal, prevVal).
fieldsEqual(a, b) == a = b

RECURSIVE SortedNums(_)
SortedNums(S) ==
    IF S = {} THEN << >>
    ELSE LET lo == CHOOSE n \in S : \A k \in S : n <= k
         IN  << lo >> \o SortedNums(S \ {lo})

\* The bytes of a fixed-width pattern, least significant byte first.
LEBytes(w) ==
    [j \in 1..(Len(w) \div 8) |-> BitsNum(SubSeq(w, Len(w) - 8 * j + 1, Len(w) - 8 * j + 8))]

\* One field in the protobuf wire format: the key (number, wire type) as a
\* varint, then a varint, 8 fixed bytes (double) or 4 fixed bytes (float).
MarshalField(n, kind, v) ==
    IF kind = "double" THEN PutUvarint(8 * n + 1) \o LEBytes(v)
    ELSE IF kind = "float" THEN PutUvarint(8 * n + 5) \o LEBytes(v)
    ELSE PutUvarint(8 * n) \o PutUvarint(v)

RECURSIVE MarshalFrom(_, _, _)
MarshalFrom(m, ns, i) ==
    IF i > Len(ns) THEN << >>
    ELSE MarshalField(ns[i], KindOf(schema, ns[i]), m.vals[ns[i]]) \o MarshalFrom(m, ns, i + 1)

\* Message.Marshal: the set (non-default) fields of the message's own
\* descriptor, by ascending field number.
Marshal(m) ==
    MarshalFrom(m, SortedNums({n \in m.md : m.vals[n] # Default(KindOf(schema, n))}), 1)

\* m = dynamic.NewMessage(enc.schema); m.MergeFrom(orig).
MergeFrom(orig) ==
    [md |-> Nums(schema),
     vals |-> [n \in Nums(schema) |->
                  IF n \in orig.md THEN orig.vals[n] ELSE Default(KindOf(schema, n))]]

SeqMax(values) ==
    IF values = << >> THEN 0
    ELSE LET S == {values[i] : i \in 1..Len(values)} \cup {0}
         IN  CHOOSE v \in S : \A k \in S : k <= v

\* enc.writeBitset(values...): varint of max + 1, then bits 0..max.
writeBitset(s, values) ==
    LET max == SeqMax(values)
        set == {values[i] : i \in 1..Len(values)}
    IN  writeVarInt(s, max + 1) \o [i \in 1..(max + 1) |-> IF (i - 1) \in set THEN 1 ELSE 0]

\* The changed fields as encodeProtoValues collects them: the schema fields,
\* in schema order, whose value in the clone differs from lastEncoded's.
changedFieldsOf(clone, prev) ==
    LET nums == [i \in 1..Len(schema) |-> schema[i].num]
        differs(n) == ~fieldsEqual(clone.vals[n], prev.vals[n])
    IN  SelectSeq(nums, differs)

\* enc.encodeProtoValues(m) writing to s, with prev the message lastEncoded
\* points to (Nil before the first Encode). GetFieldByNumber on lastEncoded
\* panics when its descriptor lacks a schema field.
encodeProtoValues(s, m, prev, marshalFails) ==
    LET panics == prev # Nil /\ \E n \in Nums(schema) : n \notin prev.md
        clone == MergeFrom(m)
        changedFields == IF prev = Nil THEN << >> ELSE changedFieldsOf(clone, prev)
        changedSet == {changedFields[i] : i \in 1..Len(changedFields)}
        toMarshal ==
            IF prev = Nil THEN m
            ELSE [clone EXCEPT !.vals = [n \in Nums(schema) |->
                     IF n \in changedSet THEN clone.vals[n] ELSE Default(KindOf(schema, n))]]
        marshaled == Marshal(toMarshal)
        none == [stream |-> s, err |-> FALSE, panic |-> FALSE, ctl |-> << >>,
                 changed |-> << >>, payload |-> << >>]
    IN  IF panics THEN [none EXCEPT !.panic = TRUE]
        ELSE IF Len(changedFields) = 0 /\ prev # Nil
             THEN [none EXCEPT !.stream = WriteBit(s, 0), !.ctl = << 0 >>]
        ELSE IF marshalFails THEN [none EXCEPT !.err = TRUE, !.changed = changedFields]
        ELSE [none EXCEPT
                 !.stream = WriteBytes(
                     writeVarInt(writeBitset(WriteBit(s, 1), changedFields), Len(marshaled)),
                     marshaled),
                 !.ctl = << 1 >>, !.changed = changedFields, !.payload = marshaled]

(***************************************************************************)
(* The reader of the stream (the decoder of the format): per frame, one    *)
(* float code per float field, then the control bit, the bitset and the    *)
(* payload, merged onto the previous decoded message.                      *)
(***************************************************************************)
ReadBits(b, pos, n) == SubSeq(b, pos + 1, pos + n)

RECURSIVE ReadUvarint(_, _)
\* A varint at bit position pos: the value and the position after it.
ReadUvarint(b, pos) ==
    LET byte == BitsNum(ReadBits(b, pos, 8))
        more == ReadUvarint(b, pos + 8)
    IN  IF byte < 128 THEN [val |-> byte, pos |-> pos + 8]
        ELSE [val |-> (byte - 128) + 128 * more.val, pos |-> more.pos]

RECURSIVE ReadBytes(_, _, _)
ReadBytes(b, pos, n) ==
    IF n = 0 THEN << >>
    ELSE << BitsNum(ReadBits(b, pos, 8)) >> \o ReadBytes(b, pos + 8, n - 1)

RECURSIVE UvarintAt(_, _)
\* A varint at index i of a byte string: the value and the index after it.
UvarintAt(bytes, i) ==
    LET more == UvarintAt(bytes, i + 1)
    IN  IF bytes[i] < 128 THEN [val |-> bytes[i], next |-> i + 1]
        ELSE [val |-> (bytes[i] - 128) + 128 * more.val, next |-> more.next]

RECURSIVE FromLEBytes(_, _, _)
\* The pattern whose bytes, least significant first, are bytes[i..i+n-1].
FromLEBytes(bytes, i, n) ==
    IF n = 0 THEN << >> ELSE FromLEBytes(bytes, i + 1, n - 1) \o NumBits(bytes[i], 8)

RECURSIVE UnmarshalFrom(_, _)
\* The fields a marshaled message holds, as a function from field number.
UnmarshalFrom(bytes, i) ==
    IF i > Len(bytes) THEN << >>
    ELSE LET key == UvarintAt(bytes, i)
             n == key.val \div 8
             wire == key.val % 8
             v == UvarintAt(bytes, key.next)
         IN  IF wire = 1
             THEN (n :> FromLEBytes(bytes, key.next, 8)) @@ UnmarshalFrom(bytes, key.next + 8)
             ELSE IF wire = 5
             THEN (n :> FromLEBytes(bytes, key.next, 4)) @@ UnmarshalFrom(bytes, key.next + 4)
             ELSE (n :> v.val) @@ UnmarshalFrom(bytes, v.next)

Unmarshal(bytes) == UnmarshalFrom(bytes, 1)

\* The float32 pattern of a float64 pattern that a float32 widens to.
Narrow(w) ==
    LET sign == SubSeq(w, 1, 1)
        ex == BitsNum(SubSeq(w, 2, 12))
        mant == SubSeq(w, 13, 35)
    IN  IF ex = 0 THEN sign \o Zeros(FloatBits - 1)
        ELSE IF ex = 2047 THEN sign \o NumBits(255, 8) \o mant
        ELSE sign \o NumBits(ex - 896, 8) \o mant

\* One float code at pos, for a field with state f: the pattern and XOR read
\* and the position after the code.
ReadTSZ(b, pos, f, first) ==
    LET pl == LeadingZeros(f.prevXOR)
        pt == TrailingZeros(f.prevXOR)
        cl == BitsNum(ReadBits(b, pos + 2, 5))
        sig == BitsNum(ReadBits(b, pos + 7, 6))
        reuse == Zeros(pl) \o ReadBits(b, pos + 2, WordBits - pl - pt) \o Zeros(pt)
        fresh == Zeros(cl) \o ReadBits(b, pos + 13, sig) \o Zeros(WordBits - cl - sig)
        raw == ReadBits(b, pos, WordBits)
    IN  IF first THEN [bits |-> raw, xor |-> raw, pos |-> pos + WordBits]
        ELSE IF b[pos + 1] = 0
             THEN [bits |-> f.prevFloatBits, xor |-> Zeros(WordBits), pos |-> pos + 1]
        ELSE IF b[pos + 2] = 0
             THEN [bits |-> XorBits(f.prevFloatBits, reuse), xor |-> reuse,
                   pos |-> pos + 2 + WordBits - pl - pt]
        ELSE [bits |-> XorBits(f.prevFloatBits, fresh), xor |-> fresh,
              pos |-> pos + 13 + sig]

RECURSIVE ReadTSZRun(_, _, _, _, _)
\* The float codes of one frame: the reader's field states, the values read
\* (by field number) and the position after the run.
ReadTSZRun(b, i, st, first, sch) ==
    IF i > Len(st.tsz) THEN st
    ELSE LET r == ReadTSZ(b, st.pos, st.tsz[i], first)
             n == st.tsz[i].fieldNum
             v == IF KindOf(sch, n) = "float" THEN Narrow(r.bits) ELSE r.bits
         IN  ReadTSZRun(b, i + 1,
                        [tsz |-> [st.tsz EXCEPT ![i].prevFloatBits = r.bits,
                                                ![i].prevXOR = r.xor],
                         vals |-> (n :> v) @@ st.vals,
                         pos |-> r.pos],
                        first, sch)

\* The reader once it has lost the stream: a frame it could not read to
\* its last bit, or a message other than the one encoded.
Desynced == [tsz |-> << >>, first |-> FALSE, out |-> Nil, ok |-> FALSE]

\* One frame b read with reader state d, where want is the message the
\* frame is to give: the new reader state, with out the message read.
DecodeFrame(d, b, want) ==
    LET sch == schema
        run == ReadTSZRun(b, 1, [tsz |-> d.tsz, vals |-> << >>, pos |-> 0], d.first, sch)
        ctl == b[run.pos + 1]
        bmLen == ReadUvarint(b, run.pos + 1)
        changed == IF ctl = 0 THEN {}
                   ELSE {i \in 0..(bmLen.val - 1) : b[bmLen.pos + i + 1] = 1}
        payLen == ReadUvarint(b, bmLen.pos + bmLen.val)
        partial == Unmarshal(ReadBytes(b, payLen.pos, payLen.val))
        merged == [n \in Nums(sch) |->
                      IF n \in DOMAIN run.vals THEN run.vals[n]
                      ELSE IF n \in changed
                           THEN IF n \in DOMAIN partial THEN partial[n]
                                ELSE Default(KindOf(sch, n))
                      ELSE d.out.vals[n]]
        endPos == IF ctl = 0 THEN run.pos + 1 ELSE payLen.pos + 8 * payLen.val
        out == [md |-> Nums(sch), vals |-> merged]
    IN  IF endPos = Len(b) /\ out = want
        THEN [tsz |-> run.tsz, first |-> FALSE, out |-> out, ok |-> TRUE]
        ELSE Desynced

(***************************************************************************)
(* Operations.                                                             *)
(***************************************************************************)
\* The state of the reader before the first frame.
NewDecoder(sch) ==
    [tsz |-> tszFieldsOf(sch), first |-> TRUE, out |-> NewMessage(sch), ok |-> TRUE]

NoCall(sch) ==
    [called |-> FALSE, m |-> Nil, hasPrev |-> FALSE, diff |-> {}, prevOk |-> FALSE,
     allOk |-> TRUE, alias |-> FALSE, first |-> FALSE, ends |-> << >>,
     tszErr |-> FALSE, protoErr |-> FALSE, panic |-> FALSE, ctl |-> << >>,
     changed |-> << >>, payload |-> << >>, keptTsz |-> TRUE, keptLastEncoded |-> TRUE,
     preKind |-> << >>, preDelta |-> << >>,
     kind |-> [i \in 1..Len(tszFieldsOf(sch)) |-> "none"],
     pat |-> [i \in 1..Len(tszFieldsOf(sch)) |-> Zeros(WordBits)],
     delta |-> [i \in 1..Len(tszFieldsOf(sch)) |-> Zeros(WordBits)]]

\* NewEncoder(b, schema, opts).
Init ==
    /\ schema \in Schemas
    /\ frame = << >>
    /\ hasWrittenFirstTSZ = FALSE
    /\ lastEncoded = Nil
    /\ tszFields = tszFieldsOf(schema)
    /\ ret = "none"
    /\ last = NoCall(schema)
    /\ dec = NewDecoder(schema)
    /\ QueryInit
    /\ GlobIdle

\* The fields in which two messages differ (a field only one of them knows
\* differs).
DiffFields(a, b) ==
    {n \in Nums(schema) :
        \/ (n \in a.md) # (n \in b.md)
        \/ n \in a.md /\ n \in b.md /\ a.vals[n] # b.vals[n]}

\* The 64-bit pattern of the value message m holds for float field n.
Pattern(m, n) == IF Len(m.vals[n]) = WordBits THEN m.vals[n] ELSE Widen(m.vals[n])

\* The history record of a call: m as passed, t and p the results of the
\* two steps. Per float field: kind tells how its last code was written,
\* pat the pattern of the value last written and delta the XOR of the last
\* two patterns written.
CallRecord(m, alias, t, p) ==
    LET failed == t.err \/ p.err \/ p.panic
        written(i) == i <= Len(t.ends)
        patOf(i) == IF written(i) THEN Pattern(m, tszFields[i].fieldNum) ELSE last.pat[i]
    IN  [called |-> TRUE,
         m |-> m,
         hasPrev |-> last.called,
         diff |-> IF last.called THEN DiffFields(m, last.m) ELSE {},
         prevOk |-> last.called /\ ~last.tszErr /\ ~last.protoErr /\ ~last.panic,
         allOk |-> last.allOk /\ ~failed,
         alias |-> alias,
         first |-> ~hasWrittenFirstTSZ,
         ends |-> t.ends,
         tszErr |-> t.err,
         protoErr |-> p.err,
         panic |-> p.panic,
         ctl |-> p.ctl,
         changed |-> p.changed,
         payload |-> p.payload,
         keptTsz |-> t.tsz = tszFields /\ t.hasWritten = hasWrittenFirstTSZ,
         keptLastEncoded |-> alias \/ p.panic,
         preKind |-> last.kind,
         preDelta |-> last.delta,
         kind |-> [i \in 1..Len(tszFields) |->
                      IF ~written(i) THEN last.kind[i]
                      ELSE IF hasWrittenFirstTSZ THEN "delta" ELSE "raw"],
         pat |-> [i \in 1..Len(tszFields) |-> patOf(i)],
         delta |-> [i \in 1..Len(tszFields) |->
                      IF written(i) /\ hasWrittenFirstTSZ
                      THEN XorBits(last.pat[i], patOf(i)) ELSE last.delta[i]]]

\* enc.Encode(m): m is the caller's message object, alias tells that it is
\* the object lastEncoded already points to. The errors of both steps are
\* dropped and nil is returned; a panic of GetFieldByNumber ends the call
\* after the float codes were written.
EncodeCall(m, alias, marshalFails) ==
    \E t \in {encodeTSZValues(m)} :
    \E prev \in {IF lastEncoded = Nil THEN Nil ELSE IF alias THEN t.m ELSE lastEncoded} :
    \E p \in {encodeProtoValues(t.stream, t.m, prev, marshalFails)} :
    \E rec \in {CallRecord(m, alias, t, p)} :
        /\ frame' = p.stream
        /\ tszFields' = t.tsz
        /\ hasWrittenFirstTSZ' = t.hasWritten
        /\ lastEncoded' = IF p.panic /\ ~alias THEN lastEncoded ELSE t.m
        /\ ret' = IF p.panic THEN "panic" ELSE "nil"
        /\ last' = rec
        /\ dec' = IF rec.allOk /\ dec.ok THEN DecodeFrame(dec, p.stream, m)
                  ELSE Desynced
        /\ UNCHANGED << schema, queryVars, globVars >>

\* A panic of Encode ends the use of the encoder.
CanEncode == ret # "panic"

\* The caller passes a message object the encoder does not point to.
Encode ==
    /\ CanEncode
    /\ \E m \in InputMessages(schema), marshalFails \in BOOLEAN :
           EncodeCall(m, FALSE, marshalFails)

\* The caller fills the object it passed last with the next message and
\* passes it again (the descriptor of an object does not change).
EncodeSameObject ==
    /\ CanEncode
    /\ lastEncoded # Nil
    /\ \E m \in InputMessages(schema), marshalFails \in BOOLEAN :
           /\ m.md = lastEncoded.md
           /\ EncodeCall(m, TRUE, marshalFails)

\* The caller writes a general field of the message object it passed last
\* (its own object, which the encoder still points to).
CallerSetField ==
    /\ CanEncode
    /\ lastEncoded # Nil
    /\ \E n \in lastEncoded.md \ TszNums(schema) :
       \E v \in InputVals(KindOf(schema, n)) \ {lastEncoded.vals[n]} :
           lastEncoded' = [lastEncoded EXCEPT !.vals[n] = v]
    /\ UNCHANGED << schema, frame, hasWrittenFirstTSZ, tszFields, ret, last, dec >>
    /\ UNCHANGED << queryVars, globVars >>

Next == Encode \/ EncodeSameObject \/ CallerSetField

Spec == Init /\ [][Next]_vars

(***************************************************************************)
(* Reading the last frame.                                                 *)
(***************************************************************************)
GenNums == Nums(schema) \ TszNums(schema)

\* The last call ran both steps of Encode to their end without an error.
CallOk == last.called /\ ~last.tszErr /\ ~last.protoErr /\ ~last.panic

\* The position in the frame where the float codes end.
TszEnd == IF last.ends = << >> THEN 0 ELSE last.ends[Len(last.ends)]

\* The code of the i-th float field in the last frame.
Code(i) == SubSeq(frame, (IF i = 1 THEN 0 ELSE last.ends[i - 1]) + 1, last.ends[i])

\* The general run of the last frame: everything after the float codes.
GenRun == SubSeq(frame, TszEnd + 1, Len(frame))

\* The parts of a general run that starts with 1.
BitmapLen == ReadUvarint(GenRun, 1)
Bitmap == ReadBits(GenRun, BitmapLen.pos, BitmapLen.val)
BitmapSet == {i \in 0..(BitmapLen.val - 1) : Bitmap[i + 1] = 1}
PayloadLen == ReadUvarint(GenRun, BitmapLen.pos + BitmapLen.val)
Payload == ReadBytes(GenRun, PayloadLen.pos, PayloadLen.val)
GenRunEnd == PayloadLen.pos + 8 * PayloadLen.val

SeqSet(q) == {q[i] : i \in 1..Len(q)}

\* Message m without its float fields.
GeneralPart(m) ==
    [m EXCEPT !.vals = [n \in Nums(schema) |->
        IF n \in GenNums THEN m.vals[n] ELSE Default(KindOf(schema, n))]]

(***************************************************************************)
(* C1.                                                                     *)
(***************************************************************************)
\* C1: as long as every Encode succeeded, the reader of the stream gets
\* from each frame exactly the message that was passed to Encode.
C1_RoundTrip ==
    last.called /\ last.allOk => dec.ok /\ dec.out = last.m

(***************************************************************************)
(* C2.                                                                     *)
(***************************************************************************)
\* C2: a message equal, field for field, to the one encoded just before is
\* written as one 0 bit per float field and one 0 bit for the general run,
\* and nothing else.
C2_ZeroDelta ==
    last.called /\ last.hasPrev /\ last.prevOk /\ last.diff = {} =>
        frame = Zeros(Len(tszFields) + 1)

(***************************************************************************)
(* C3.                                                                     *)
(***************************************************************************)
FirstCallOk == last.called /\ ~last.hasPrev /\ CallOk

RawCodes == \A i \in 1..Len(tszFields) : Code(i) = Pattern(last.m, tszFields[i].fieldNum)

\* C3 as claimed: the first frame holds every float field as its 64-bit
\* pattern and a general run 1 whose payload is not empty and is the whole
\* message.
C3_FirstFrameWholeMessage ==
    FirstCallOk =>
        /\ RawCodes
        /\ GenRun[1] = 1
        /\ Payload # << >>
        /\ Payload = Marshal(last.m)

\* C3 as amended: the first frame holds every float field as its 64-bit
\* pattern and a general run 1 whose payload is the marshaled general
\* fields of the message, the float fields left out; the payload is empty
\* when no general field is set.
C3_FirstFrame ==
    FirstCallOk =>
        /\ Len(last.ends) = Len(tszFields)
        /\ RawCodes
        /\ GenRun[1] = 1
        /\ Payload = Marshal(GeneralPart(last.m))
        /\ GenRunEnd = Len(GenRun)
        /\ (Payload = << >>) = (\A n \in GenNums : last.m.vals[n] = 0)

\* A first frame of a schema with float and general fields whose payload is
\* empty.
C3_Witness ==
    /\ FirstCallOk
    /\ Len(tszFields) > 0
    /\ GenNums # {}
    /\ Payload = << >>

(***************************************************************************)
(* C4.                                                                     *)
(***************************************************************************)
\* The general fields in which the last message differs from the one
\* passed before it.
GenDiff == last.diff \cap GenNums

\* Both the last call and the one before it succeeded.
TwoCallsOk == last.hasPrev /\ last.prevOk /\ CallOk

\* C4: when exactly one general field differs between two messages encoded
\* in a row, the second frame's bitset has that one bit set and its payload
\* holds that field's new value and no other field.
C4_ChangedFieldMinimal ==
    TwoCallsOk /\ Cardinality(GenDiff) = 1 =>
        LET f == CHOOSE n \in GenDiff : TRUE
            fields == Unmarshal(Payload)
        IN  /\ last.ctl = << 1 >>
            /\ BitmapSet = {f}
            /\ DOMAIN fields \subseteq {f}
            /\ last.m.vals[f] = IF f \in DOMAIN fields THEN fields[f] ELSE 0

(***************************************************************************)
(* C5.                                                                     *)
(***************************************************************************)
\* The significant bits of a non-zero XOR: between its leading and trailing
\* zeros.
SigBits(x) == SubSeq(x, LeadingZeros(x) + 1, WordBits - TrailingZeros(x))

\* Float field i got a delta code in the last call, and so it did the time
\* before; both XORs are non-zero and have the same leading and trailing
\* zero counts.
SameWindowTwice(i) ==
    /\ last.called /\ i <= Len(last.ends)
    /\ last.kind[i] = "delta" /\ last.preKind[i] = "delta"
    /\ ~IsZero(last.delta[i]) /\ ~IsZero(last.preDelta[i])
    /\ LeadingZeros(last.delta[i]) = LeadingZeros(last.preDelta[i])
    /\ TrailingZeros(last.delta[i]) = TrailingZeros(last.preDelta[i])

\* C5: when two consecutive non-zero XOR deltas of a float field have the
\* same leading and trailing zero counts, the second is written as the bits
\* 1 0 followed by its significant bits and nothing else: 2 + significant
\* bit count bits, with no window header.
C5_WindowReuse ==
    \A i \in 1..Len(tszFields) :
        SameWindowTwice(i) =>
            /\ Len(Code(i)) = 2 + Len(SigBits(last.delta[i]))
            /\ Code(i) = << 1, 0 >> \o SigBits(last.delta[i])

\* A float field whose second delta in a row has the window of the first.
C5_Witness == \E i \in 1..Len(tszFields) : SameWindowTwice(i)

(***************************************************************************)
(* C6.                                                                     *)
(***************************************************************************)
\* C6: an Encode in which fetching a float field failed, or marshaling
\* failed, returns an error to its caller.
C6_ErrorPropagation ==
    last.called /\ (last.tszErr \/ last.protoErr) => ret = "error"

(***************************************************************************)
(* C7.                                                                     *)
(***************************************************************************)
\* C7: an Encode that failed appends no general run, leaves lastEncoded
\* pointing where it did and leaves the per-field XOR state as it was.
C7_FailedEncodeKeepsState ==
    last.called /\ (last.tszErr \/ last.protoErr) =>
        /\ last.ctl = << >>
        /\ last.keptLastEncoded
        /\ last.keptTsz

(***************************************************************************)
(* C8.                                                                     *)
(***************************************************************************)
\* C8: the general fields reported as changed are those in which the
\* message differs from the content the previous message had when it was
\* passed, also when the caller passes the same object again.
C8_DiffBaseIsPassedContent ==
    TwoCallsOk /\ GenDiff # {} =>
        /\ last.ctl = << 1 >>
        /\ SeqSet(last.changed) = GenDiff

(***************************************************************************)
(* C9.                                                                     *)
(***************************************************************************)
\* C9: in a frame whose general run starts with 1 and whose changed set C
\* is not empty, the bitset length is max(C) + 1 and bit i is set exactly
\* for the i in C; bit 0 and the bits of float fields are never set.
C9_BitmapFormat ==
    last.ctl = << 1 >> /\ last.changed # << >> =>
        LET C == SeqSet(last.changed)
        IN  /\ BitmapLen.val = SeqMax(last.changed) + 1
            /\ Len(Bitmap) = BitmapLen.val
            /\ BitmapSet = C
            /\ 0 \notin BitmapSet
            /\ BitmapSet \cap TszNums(schema) = {}

(***************************************************************************)
(* C10.                                                                    *)
(***************************************************************************)
\* C10: the bitset of the first frame has the bit of every general field
\* set.
C10_FirstFrameBitmap ==
    FirstCallOk => BitmapSet = GenNums

(***************************************************************************)
(* C11.                                                                    *)
(***************************************************************************)
\* C11: the general run of a frame is the single bit 0 exactly when the
\* message is not the first and no general field differs from the message
\* encoded before; otherwise it is the bit 1, the bitset length, the bitset,
\* the payload length and the payload, and nothing else.
C11_GeneralRunControlBit ==
    CallOk /\ (last.hasPrev => last.prevOk) =>
        IF last.hasPrev /\ GenDiff = {}
        THEN GenRun = << 0 >>
        ELSE GenRun[1] = 1 /\ GenRunEnd = Len(GenRun)

(***************************************************************************)
(* C12.                                                                    *)
(***************************************************************************)
\* The code of float field i in the last frame has delta form: the bit 0
\* alone, or the bit 1 and a window code.
DeltaForm(i) == Code(i) = << 0 >> \/ (Len(Code(i)) > 2 /\ Code(i)[1] = 1)

\* C12: a float field is written as a raw 64-bit value once, the first
\* time a code is written for it; every later Encode, whatever calls came
\* before it, failing ones included, writes it in delta form.
C12_FieldStateMachine ==
    \A i \in 1..Len(tszFields) :
        last.called /\ i <= Len(last.ends) =>
            IF last.preKind[i] = "none"
            THEN last.kind[i] = "raw" /\ Len(Code(i)) = WordBits
            ELSE last.kind[i] = "delta" /\ DeltaForm(i)

(***************************************************************************)
(* C13.                                                                    *)
(***************************************************************************)
\* The pattern float field i had in the message of the call before the
\* last one, when that call succeeded: the last call, if it wrote a code for
\* the field, wrote the XOR of that pattern and the new one.
PreviousPattern(i) ==
    IF i <= Len(last.ends) THEN XorBits(last.pat[i], last.delta[i]) ELSE last.pat[i]

\* C13: prevFloatBits of each float field is the pattern of the field's
\* value in the last message encoded with success: the message of the last
\* call when it succeeded, that of the call before when the last call failed
\* and the one before succeeded.
C13_PrevFloatBits ==
    \A i \in 1..Len(tszFields) :
        /\ CallOk =>
               tszFields[i].prevFloatBits = Pattern(last.m, tszFields[i].fieldNum)
        /\ last.called /\ ~CallOk /\ last.prevOk =>
               tszFields[i].prevFloatBits = PreviousPattern(i)

(***************************************************************************)
(* C14.                                                                    *)
(***************************************************************************)
\* The numbers of the double and float fields of the schema, in the order
\* the schema declares them.
FloatFieldNums ==
    LET isFloat(f) == f.kind \in {"double", "float"}
        fs == SelectSeq(schema, isFloat)
    IN  [i \in 1..Len(fs) |-> fs[i].num]

\* The XOR state float field i had before the last call wrote its code.
PreviousXOR(i) ==
    IF last.preKind[i] = "raw" THEN PreviousPattern(i) ELSE last.preDelta[i]

\* The code the last call is to have written for float field i: the 64 bits
\* of the value, or the XOR code of the value against the value before.
ExpectedCode(i) ==
    IF last.kind[i] = "raw" THEN last.pat[i]
    ELSE WriteXOR(<< >>, PreviousXOR(i), last.delta[i])

\* C14: the float field list is the double and float fields of the schema
\* in schema order, in every state; the frame of an Encode that succeeded is
\* one code per float field in that order and then the general run, with
\* nothing before, between or after them.
C14_FrameStructure ==
    /\ [i \in 1..Len(tszFields) |-> tszFields[i].fieldNum] = FloatFieldNums
    /\ CallOk =>
           /\ Len(last.ends) = Len(tszFields)
           /\ \A i \in 1..Len(tszFields) : Code(i) = ExpectedCode(i)
           /\ \/ GenRun = << 0 >>
              \/ GenRun[1] = 1 /\ GenRunEnd = Len(GenRun)
           /\ Len(frame) = TszEnd + Len(GenRun)

\* A second or later Encode that succeeded on a schema with two float
\* fields, one written as a delta code of more than one bit.
C14_Witness ==
    /\ CallOk /\ last.hasPrev
    /\ Len(tszFields) = 2
    /\ last.kind[1] = "delta" /\ Len(Code(1)) > 1
    /\ Len(Code(2)) = 1

(***************************************************************************)
(* C15.                                                                    *)
(***************************************************************************)
\* C15: when an Encode call returns, the caller's message object (which
\* lastEncoded then points to) holds in every field, float and general, the
\* value it was passed with.
C15_EncodeKeepsMessage ==
    [][last' # last /\ ret' = "nil" => lastEncoded' = last'.m]_vars

(***************************************************************************)
(* The query conversion cache: queryKey, matcherToQuery and                *)
(* FetchQueryToM3Query. A string is the sequence of its bytes, a byte a    *)
(* one-character string. A matcher is [Type, Name, Value] with Type the    *)
(* number of its models.MatchType: 0 MatchEqual, 1 MatchNotEqual,          *)
(* 2 MatchRegexp, 3 MatchNotRegexp; any other number is a type that        *)
(* matcherToQuery does not support.                                        *)
(***************************************************************************)
MatchEqual == 0
MatchNotEqual == 1
MatchRegexp == 2
MatchNotRegexp == 3

\* lookup: the bytes of the characters 1, 2, 3, 4.
lookup == << "1", "2", "3", "4" >>

\* The byte make([]byte, l) fills the key with.
Nul == "NUL"

\* copy(dst[at:], src): dst with src written from index at (0-based) on, as
\* far as dst reaches.
Copy(dst, at, src) ==
    [i \in 1..Len(dst) |->
        IF i > at /\ i <= at + Len(src) THEN src[i - at] ELSE dst[i]]

RECURSIVE KeyLen(_, _)
\* The first loop of queryKey: l grows by the name and value lengths.
KeyLen(m, i) ==
    IF i > Len(m) THEN 0
    ELSE Len(m[i].Name) + Len(m[i].Value) + KeyLen(m, i + 1)

RECURSIVE KeyLoop(_, _, _, _)
\* The second loop of queryKey from matcher i on, idx the write position:
\* the name, the type byte, the value. lookup[t.Type] panics for a type
\* outside 0..3.
KeyLoop(m, i, key, idx) ==
    IF i > Len(m) THEN [panic |-> FALSE, key |-> key]
    ELSE IF m[i].Type \notin 0..(Len(lookup) - 1) THEN [panic |-> TRUE, key |-> << >>]
    ELSE LET afterName == idx + Len(m[i].Name)
             withName == Copy(key, idx, m[i].Name)
             withType == [withName EXCEPT ![afterName + 1] = lookup[m[i].Type + 1]]
             withValue == Copy(withType, afterName + 1, m[i].Value)
         IN  KeyLoop(m, i + 1, withValue, afterName + Len(m[i].Value) + 1)

\* queryKey(m).
queryKey(m) ==
    LET l == Len(m) + KeyLen(m, 1)
    IN  KeyLoop(m, 1, [i \in 1..l |-> Nul], 0)

\* idx.NewRegexpQuery fails on a value that is no regular expression; of the
\* values of the model that is the lone opening parenthesis.
ValidRegexp(value) == value # << "(" >>

\* idx.NewTermQuery / idx.NewRegexpQuery, negated by idx.NewNegationQuery.
FieldQuery(op, neg, name, value) ==
    [op |-> op, neg |-> neg, name |-> name, value |-> value, subs |-> << >>]

\* matcherToQuery(matcher).
matcherToQuery(matcher) ==
    IF matcher.Type \in {MatchRegexp, MatchNotRegexp}
    THEN IF ValidRegexp(matcher.Value)
         THEN [err |-> FALSE,
               query |-> FieldQuery("regexp", matcher.Type = MatchNotRegexp,
                                    matcher.Name, matcher.Value)]
         ELSE [err |-> TRUE, query |-> EmptyQuery]
    ELSE IF matcher.Type \in {MatchEqual, MatchNotEqual}
    THEN [err |-> FALSE,
          query |-> FieldQuery("term", matcher.Type = MatchNotEqual,
                               matcher.Name, matcher.Value)]
    ELSE [err |-> TRUE, query |-> EmptyQuery]

\* idx.NewConjunctionQuery(idxQueries...).
NewConjunctionQuery(queries) ==
    [op |-> "conj", neg |-> FALSE, name |-> << >>, value |-> << >>, subs |-> queries]

\* The conversion of a non-empty matcher list, cache aside: the single
\* matcher case and the loop over several matchers, which ends at the first
\* error.
ConvertMatchers(m) ==
    LET each == [i \in 1..Len(m) |-> matcherToQuery(m[i])]
    IN  IF \E i \in 1..Len(m) : each[i].err THEN [err |-> TRUE, query |-> EmptyQuery]
        ELSE IF Len(m) = 1 THEN each[1]
        ELSE [err |-> FALSE,
              query |-> NewConjunctionQuery([i \in 1..Len(m) |-> each[i].query])]

\* The matcher lists the goroutines call with.
Matcher(type, name, value) == [Type |-> type, Name |-> name, Value |-> value]

MatcherLists ==
    { << >>,
      << Matcher(MatchEqual, << "a" >>, << "1", "b" >>) >>,
      << Matcher(MatchEqual, << "a", "1" >>, << "b" >>) >>,
      << Matcher(MatchRegexp, << "a", "1" >>, << "(" >>) >>,
      << Matcher(MatchEqual, << "a" >>, << "3", "(" >>) >>,
      << Matcher(4, << "a" >>, << "b" >>) >>,
      << Matcher(MatchNotEqual, << "a" >>, << "b" >>),
         Matcher(MatchNotRegexp, << "c" >>, << "d" >>) >>,
      << Matcher(MatchEqual, << "a" >>, << "b" >>),
         Matcher(MatchRegexp, << "c" >>, << "(" >>) >> }

\* cache.get(k): q.lru.Get(k).
get(key) ==
    IF \E e \in lru : e.key = key
    THEN [ok |-> TRUE, val |-> (CHOOSE e \in lru : e.key = key).value]
    ELSE [ok |-> FALSE, val |-> EmptyQuery]

\* cache.set(k, v): q.lru.Set(k, v), the entry of the key replaced.
set(key, v) == {e \in lru : e.key # key} \cup {[key |-> key, value |-> v]}

\* The call: the empty list returns at once; queryKey may panic; else k is
\* set and the goroutine goes on to RLock.
Call(p) ==
    /\ pc[p] = "idle"
    /\ \E m \in MatcherLists :
         \E key \in {queryKey(m)} :
           /\ matchers' = [matchers EXCEPT ![p] = m]
           /\ localQ' = [localQ EXCEPT ![p] = EmptyQuery]
           /\ IF Len(m) = 0
              THEN /\ pc' = [pc EXCEPT ![p] = "done"]
                   /\ result' = [result EXCEPT ![p] = [NoResult EXCEPT !.err = "nil"]]
                   /\ localK' = [localK EXCEPT ![p] = << >>]
              ELSE IF key.panic
              THEN /\ pc' = [pc EXCEPT ![p] = "done"]
                   /\ result' = [result EXCEPT ![p] = [NoResult EXCEPT !.err = "panic"]]
                   /\ localK' = [localK EXCEPT ![p] = << >>]
              ELSE /\ pc' = [pc EXCEPT ![p] = "rlock"]
                   /\ result' = [result EXCEPT ![p] = NoResult]
                   /\ localK' = [localK EXCEPT ![p] = key.key]
    /\ UNCHANGED << lru, readers, writer >>
    /\ UNCHANGED << vars, globVars >>

\* cache.RLock(): waits while a goroutine holds the write lock.
RLock(p) ==
    /\ pc[p] = "rlock"
    /\ writer = 0
    /\ readers' = readers \cup {p}
    /\ pc' = [pc EXCEPT ![p] = "get"]
    /\ UNCHANGED << lru, writer, matchers, localK, localQ, result >>
    /\ UNCHANGED << vars, globVars >>

\* val, ok := cache.get(k).
Get(p) ==
    /\ pc[p] = "get"
    /\ \E found \in {get(localK[p])} :
         /\ localQ' = [localQ EXCEPT ![p] = found.val]
         /\ pc' = [pc EXCEPT ![p] = IF found.ok THEN "hit" ELSE "miss"]
    /\ result' = [result EXCEPT ![p].read = TRUE]
    /\ UNCHANGED << lru, readers, writer, matchers, localK >>
    /\ UNCHANGED << vars, globVars >>

\* The hit: cache.RUnlock() and return val.
RUnlockHit(p) ==
    /\ pc[p] = "hit"
    /\ readers' = readers \ {p}
    /\ result' = [result EXCEPT ![p].query = localQ[p], ![p].err = "nil"]
    /\ pc' = [pc EXCEPT ![p] = "done"]
    /\ UNCHANGED << lru, writer, matchers, localK, localQ >>
    /\ UNCHANGED << vars, globVars >>

\* The miss: cache.RUnlock().
RUnlockMiss(p) ==
    /\ pc[p] = "miss"
    /\ readers' = readers \ {p}
    /\ pc' = [pc EXCEPT ![p] = "convert"]
    /\ UNCHANGED << lru, writer, matchers, localK, localQ, result >>
    /\ UNCHANGED << vars, globVars >>

\* The conversion of the matchers, one or several: an error returns the
\* zero query and the error, else q is set.
Convert(p) ==
    /\ pc[p] = "convert"
    /\ \E c \in {ConvertMatchers(matchers[p])} :
         IF c.err
         THEN /\ result' = [result EXCEPT ![p].query = EmptyQuery, ![p].err = "error"]
              /\ pc' = [pc EXCEPT ![p] = "done"]
              /\ UNCHANGED localQ
         ELSE /\ localQ' = [localQ EXCEPT ![p] = c.query]
              /\ pc' = [pc EXCEPT ![p] = "lock"]
              /\ UNCHANGED result
    /\ UNCHANGED << lru, readers, writer, matchers, localK >>
    /\ UNCHANGED << vars, globVars >>

\* A Lock that does not wait.
LockWithoutWait(p) ==
    /\ pc[p] = "lock"
    /\ writer' = p
    /\ pc' = [pc EXCEPT ![p] = "set"]
    /\ UNCHANGED << lru, readers, matchers, localK, localQ, result >>
    /\ UNCHANGED << vars, globVars >>

\* cache.Lock(): waits while a goroutine holds the lock, to read or write.
Lock(p) ==
    /\ pc[p] = "lock"
    /\ writer = 0 /\ readers = {}
    /\ writer' = p
    /\ pc' = [pc EXCEPT ![p] = "set"]
    /\ UNCHANGED << lru, readers, matchers, localK, localQ, result >>
    /\ UNCHANGED << vars, globVars >>

\* cache.set(k, q).
Set(p) ==
    /\ pc[p] = "set"
    /\ lru' = set(localK[p], localQ[p])
    /\ result' = [result EXCEPT ![p].wrote = TRUE]
    /\ pc' = [pc EXCEPT ![p] = "unlock"]
    /\ UNCHANGED << readers, writer, matchers, localK, localQ >>
    /\ UNCHANGED << vars, globVars >>

\* cache.Unlock() and return q.
Unlock(p) ==
    /\ pc[p] = "unlock"
    /\ writer' = 0
    /\ result' = [result EXCEPT ![p].query = localQ[p], ![p].err = "nil"]
    /\ pc' = [pc EXCEPT ![p] = "done"]
    /\ UNCHANGED << lru, readers, matchers, localK, localQ >>
    /\ UNCHANGED << vars, globVars >>

\* The caller has taken the result; the goroutine may call again.
Return(p) ==
    /\ pc[p] = "done"
    /\ result[p].err # "panic"
    /\ pc' = [pc EXCEPT ![p] = "idle"]
    /\ matchers' = [matchers EXCEPT ![p] = << >>]
    /\ localK' = [localK EXCEPT ![p] = << >>]
    /\ localQ' = [localQ EXCEPT ![p] = EmptyQuery]
    /\ result' = [result EXCEPT ![p] = NoResult]
    /\ UNCHANGED << lru, readers, writer >>
    /\ UNCHANGED << vars, globVars >>

\* The encoder and glob take no part in the cache's specification.
EncoderIdle ==
    /\ schema = SchemaA
    /\ frame = << >>
    /\ hasWrittenFirstTSZ = FALSE
    /\ lastEncoded = Nil
    /\ tszFields = tszFieldsOf(SchemaA)
    /\ ret = "none"
    /\ last = NoCall(SchemaA)
    /\ dec = NewDecoder(SchemaA)

QueryStart == EncoderIdle /\ QueryInit /\ GlobIdle

QueryNext ==
    \E p \in Procs :
        \/ Call(p) \/ RLock(p) \/ Get(p) \/ RUnlockHit(p) \/ RUnlockMiss(p)
        \/ Convert(p) \/ Lock(p) \/ Set(p) \/ Unlock(p) \/ Return(p)

allVars == << vars, queryVars, globVars >>

CacheSpec == QueryStart /\ [][QueryNext]_allVars

\* A goroutine in a call goes on: it is not stopped for ever between two
\* steps, and a goroutine that waits for the lock gets it when the lock is
\* free again and again (sync.RWMutex does not starve a waiting goroutine).
\* Whether a goroutine calls at all is up to the caller.
QueryFairness ==
    \A p \in Procs :
        /\ SF_allVars(RLock(p)) /\ SF_allVars(Lock(p))
        /\ WF_allVars(Get(p)) /\ WF_allVars(RUnlockHit(p)) /\ WF_allVars(RUnlockMiss(p))
        /\ WF_allVars(Convert(p)) /\ WF_allVars(Set(p)) /\ WF_allVars(Unlock(p))

CacheFairSpec == CacheSpec /\ QueryFairness

(***************************************************************************)
(* C16.                                                                    *)
(***************************************************************************)
\* Goroutine p has returned from a call with a non-empty matcher list.
Returned(p) ==
    pc[p] = "done" /\ matchers[p] # << >> /\ result[p].err \in {"nil", "error"}

\* C16: a call with a non-empty matcher list returns what the conversion of
\* its matchers gives with an empty cache, the same query and the same
\* error, whatever calls ran on the cache before.
C16_CacheTransparent ==
    \A p \in Procs :
        Returned(p) =>
            /\ result[p].query = ConvertMatchers(matchers[p]).query
            /\ (result[p].err = "error") = ConvertMatchers(matchers[p]).err

(***************************************************************************)
(* C17.                                                                    *)
(***************************************************************************)
\* cache.get runs, and its result is used, with the read lock held.
ReadsWithLock == \A p \in Procs : pc[p] \in {"get", "hit", "miss"} => p \in readers

\* cache.set runs with the write lock held.
WritesWithLock == \A p \in Procs : pc[p] \in {"set", "unlock"} => writer = p

\* No goroutine is about to write the LRU while another reads or writes it.
NoOverlap ==
    /\ writer # 0 => readers = {}
    /\ \A p, r \in Procs :
           p # r => ~(pc[p] = "set" /\ pc[r] \in {"get", "set"})

\* Outside the locked regions a goroutine holds no lock; so it does when
\* its call has ended, on every path.
LocksReleased ==
    \A p \in Procs :
        pc[p] \in {"idle", "rlock", "convert", "lock", "done"} =>
            p \notin readers /\ writer # p

\* A goroutine in a call gets to the end of the call: it is not blocked for
\* ever.
CallsEnd == \A p \in Procs : (pc[p] \notin {"idle", "done"}) ~> (pc[p] = "done")

\* C17: in every interleaving of the calls of the goroutines the LRU is read
\* with the read lock held and written with the write lock held, no write
\* overlaps a read or a write, a call holds no lock outside the locked
\* regions and when it has ended, on every path, and every call comes to
\* its end (no deadlock).
C17_LockDiscipline ==
    /\ [](ReadsWithLock /\ WritesWithLock /\ NoOverlap /\ LocksReleased)
    /\ CallsEnd

\* Two goroutines contend for the lock: one is at cache.Lock() while the
\* other holds the read lock, or one holds the write lock while the other is
\* at cache.RLock().
C17_Witness ==
    \E p, r \in Procs :
        /\ p # r
        /\ \/ pc[p] = "lock" /\ r \in readers
           \/ pc[p] = "set" /\ pc[r] = "rlock"


\* C18: when the conversion of a matcher of the list fails (unsupported
\* type, invalid regular expression), FetchQueryToM3Query returns an error and
\* an empty query and the call has not written the cache; with an empty list it
\* returns the empty query and no error, and the call has neither read nor
\* written the cache.
ConversionFails(m) == m # << >> /\ ConvertMatchers(m).err

C18_ConversionErrors ==
    \A p \in Procs :
        pc[p] = "done" =>
            /\ matchers[p] = << >> =>
                    /\ result[p].err = "nil"
                    /\ result[p].query = EmptyQuery
                    /\ ~result[p].read /\ ~result[p].wrote
            /\ ConversionFails(matchers[p]) =>
                    /\ result[p].err = "error"
                    /\ result[p].query = EmptyQuery
                    /\ ~result[p].wrote


(***************************************************************************)
(* glob (graphite/storage/converter.go). A Go string is a sequence of      *)
(* bytes; len(metric) counts its bytes, and "for _, c := range metric"     *)
(* walks its runes: it decodes one UTF-8 sequence per step, and yields     *)
(* U+FFFD and moves on by one byte where the bytes are no valid sequence.  *)
(***************************************************************************)
carbonSeparatorByte == 46
carbonGlobRune == 42

\* The longest metric of the check, in bytes.
MaxLen == 4

\* The bytes of the metrics: 'a', '*', '.', and the two bytes of U+00E9
\* (0xC3 0xA9), which also occur alone and in the wrong order.
MetricBytes == {97, 42, 46, 195, 169}

Metrics == UNION { [1..n -> MetricBytes] : n \in 0..MaxLen }

\* The rune that "range" yields at byte i of string s, and its width in
\* bytes: the one-byte and the two-byte forms of UTF-8, which are all that
\* MetricBytes can form; any other byte is an invalid sequence of width 1.
DecodeRune(s, i) ==
    IF s[i] < 128
    THEN [rune |-> s[i], width |-> 1]
    ELSE IF /\ s[i] >= 194 /\ s[i] <= 223
            /\ i < Len(s)
            /\ s[i + 1] >= 128 /\ s[i + 1] <= 191
    THEN [rune |-> (s[i] - 192) * 64 + (s[i + 1] - 128), width |-> 2]
    ELSE [rune |-> 65533, width |-> 1]

\* The runes of "range s" from byte i on.
RECURSIVE RangeFrom(_, _)
RangeFrom(s, i) ==
    IF i > Len(s) THEN << >>
    ELSE LET d == DecodeRune(s, i)
         IN  << d.rune >> \o RangeFrom(s, i + d.width)

Range(s) == RangeFrom(s, 1)

\* The first loop: len(metric), in bytes, and one more for each '*'.
globLen(s) ==
    LET runes == Range(s)
    IN  Len(s) + Cardinality({ k \in 1..Len(runes) : runes[k] = carbonGlobRune })

\* byte(c): the low eight bits of the rune.
Byte(c) == c % 256

\* The second loop from rune k on: buf is glob, i the index to write next
\* (counted from 0 as in the code; buf[i + 1] is glob[i]).
RECURSIVE globLoop(_, _, _, _)
globLoop(runes, k, buf, i) ==
    IF k > Len(runes) THEN [glob |-> buf, i |-> i]
    ELSE IF runes[k] = carbonGlobRune
    THEN globLoop(runes, k + 1,
                  [[buf EXCEPT ![i + 1] = carbonSeparatorByte]
                        EXCEPT ![i + 2] = Byte(runes[k])],
                  i + 2)
    ELSE globLoop(runes, k + 1, [buf EXCEPT ![i + 1] = Byte(runes[k])], i + 1)

\* glob(metric): the buffer of make([]byte, globLen) is all zero before the
\* loop writes it.
glob(s) == globLoop(Range(s), 1, [j \in 1..globLen(s) |-> 0], 0)

\* A call of glob with any of the metrics.
GlobCall ==
    /\ \E s \in Metrics :
         \E g \in {glob(s)} :
           /\ metric' = s
           /\ globbed' = g.glob
           /\ filled' = g.i
    /\ UNCHANGED << vars, queryVars >>

GlobStart == EncoderIdle /\ QueryInit /\ GlobIdle

GlobNext == GlobCall

GlobSpec == GlobStart /\ [][GlobNext]_allVars

\* The metric with ".*" in the place of each '*', byte by byte.
RECURSIVE StarsReplaced(_)
StarsReplaced(s) ==
    IF s = << >> THEN << >>
    ELSE (IF Head(s) = carbonGlobRune
          THEN << carbonSeparatorByte, carbonGlobRune >>
          ELSE << Head(s) >>) \o StarsReplaced(Tail(s))

Stars(s) == Cardinality({ k \in 1..Len(s) : s[k] = carbonGlobRune })

\* C19: glob(metric) is the metric with each '*' replaced by the two
\* bytes ".*" and every other character copied unchanged in order; its length
\* is len(metric) plus the number of '*', and every byte of it is written.
C19_Glob ==
    /\ globbed = StarsReplaced(metric)
    /\ Len(globbed) = Len(metric) + Stars(metric)
    /\ filled = Len(globbed)

====
